---- MODULE Spec2Model ----
(***************************************************************************)
(* Model of the workouts canister (src/src/index.ts): two stable maps,     *)
(* users (Principal -> User) and workouts (text -> WorkoutSession), and    *)
(* the seven canister methods.  Every call is one atomic step, as the      *)
(* canister runs one message at a time.                                    *)
(*                                                                         *)
(* Texts (names, muscle groups) are sequences of one-character strings so  *)
(* that trim() and toLowerCase() are computed, not assumed.  Workout ids   *)
(* are the uuid texts, named 1..MaxWorkouts in their sort order.           *)
(***************************************************************************)
EXTENDS Integers, Sequences, FiniteSets, TLC

VARIABLES users, workouts, issued, now, last, inflight

vars == <<users, workouts, issued, now, last, inflight>>

---------------------------------------------------------------------------
(* Bounds *)

\* number of distinct uuids the generator hands out in one run
MaxWorkouts == 2
\* largest value ic.time() returns in one run (timestamps are 1..MaxTime; 0 is
\* the unset finishedAt)
MaxTime == 1

---------------------------------------------------------------------------
(* Inputs *)

\* caller identities (ic.caller())
Principals == {1, 2}

\* textual form of each principal, as Principal.toString() prints it
PrincipalText == <<"2vxsx-fae", "rrkah-fqaaa", "ryjl3-tyaaa", "r7inp-6aaaa">>

WorkoutIds == 1..MaxWorkouts

Times == 1..MaxTime

Alice == <<"A", "l", "i", "c", "e">>
Bob == <<"B", "o", "b">>
EmptyText == <<>>
Blanks == <<" ", " ", " ">>

Names == {Alice, Bob, EmptyText, Blanks}

LegsUpper == <<"L", "E", "G", "S">>
ShouldersCapital == <<"S", "h", "o", "u", "l", "d", "e", "r", "s">>
Shoulders == <<"s", "h", "o", "u", "l", "d", "e", "r", "s">>
Yoga == <<"y", "o", "g", "a">>
LegsPadded == <<" ", "l", "e", "g", "s">>

\* the groups the calls are made with
GroupInputs ==
    {LegsUpper, ShouldersCapital, Shoulders, Yoga, LegsPadded, EmptyText, Blanks}

LegsCapital == <<"L", "e", "g", "s">>
Chest == <<"c", "h", "e", "s", "t">>
BackUpper == <<"B", "A", "C", "K">>
CardioMixed == <<"c", "A", "r", "D", "i", "O">>

\* the groups the handler is asked about: the calls' groups and more variants
GroupSamples == GroupInputs \cup {LegsCapital, Chest, BackUpper, CardioMixed}

CaloriesInputs == {0, 250}

---------------------------------------------------------------------------
(* Text helpers *)

WhiteSpace == {" ", "\t", "\n", "\r"}

RECURSIVE trimStart(_)
trimStart(str) ==
    IF str # <<>> /\ Head(str) \in WhiteSpace THEN trimStart(Tail(str)) ELSE str

RECURSIVE trimEnd(_)
trimEnd(str) ==
    IF str # <<>> /\ str[Len(str)] \in WhiteSpace
    THEN trimEnd(SubSeq(str, 1, Len(str) - 1))
    ELSE str

trim(str) == trimEnd(trimStart(str))

\* faulty variant of isInvalidString: the text is not trimmed first
isEmptyString(str) == Len(str) = 0

isInvalidString(str) == Len(trim(str)) = 0

UpperLetters ==
    <<"A", "B", "C", "D", "E", "F", "G", "H", "I", "J", "K", "L", "M",
      "N", "O", "P", "Q", "R", "S", "T", "U", "V", "W", "X", "Y", "Z">>

LowerLetters ==
    <<"a", "b", "c", "d", "e", "f", "g", "h", "i", "j", "k", "l", "m",
      "n", "o", "p", "q", "r", "s", "t", "u", "v", "w", "x", "y", "z">>

lowerChar(c) ==
    IF \E i \in DOMAIN UpperLetters : UpperLetters[i] = c
    THEN LowerLetters[CHOOSE i \in DOMAIN UpperLetters : UpperLetters[i] = c]
    ELSE c

toLowerCase(str) == [i \in DOMAIN str |-> lowerChar(str[i])]

includes(arr, x) == \E i \in DOMAIN arr : arr[i] = x

POSSIBLE_GROUPS ==
    << <<"s", "h", "o", "u", "d", "e", "r", "s">>,
       <<"b", "a", "c", "k">>,
       <<"c", "h", "e", "s", "t">>,
       <<"l", "e", "g", "s">>,
       <<"c", "a", "r", "d", "i", "o">> >>

\* faulty variant of toString: every principal prints alike
toStringOfObject(p) == "[object Object]"

toString(p) == PrincipalText[p]

---------------------------------------------------------------------------
(* StableBTreeMap *)

containsKey(map, key) == key \in DOMAIN map

insert(map, key, value) ==
    [k \in DOMAIN map \cup {key} |-> IF k = key THEN value ELSE map[k]]

remove(map, key) == [k \in DOMAIN map \ {key} |-> map[k]]

RECURSIVE keysInOrder(_)
keysInOrder(S) ==
    IF S = {} THEN <<>>
    ELSE LET m == CHOOSE x \in S : \A y \in S : x <= y
         IN <<m>> \o keysInOrder(S \ {m})

values(map) ==
    LET ks == keysInOrder(DOMAIN map) IN [i \in DOMAIN ks |-> map[ks[i]]]

EmptyMap == [k \in {} |-> 0]

---------------------------------------------------------------------------
(* Results: Ok carries a user or a workout (or a Vec of them for the       *)
(* queries), Err carries the variant's payload in the field of its type.   *)

NoResult ==
    [kind |-> "None", users |-> <<>>, workouts |-> <<>>,
     principal |-> <<>>, id |-> <<>>, text |-> <<>>, options |-> <<>>]

OkUser(u) == [NoResult EXCEPT !.kind = "Ok", !.users = <<u>>]
OkWorkout(w) == [NoResult EXCEPT !.kind = "Ok", !.workouts = <<w>>]
VecUser(us) == [NoResult EXCEPT !.kind = "Vec", !.users = us]
VecWorkout(ws) == [NoResult EXCEPT !.kind = "Vec", !.workouts = ws]
ErrPrincipal(kind, p) == [NoResult EXCEPT !.kind = kind, !.principal = <<p>>]
ErrId(kind, id) == [NoResult EXCEPT !.kind = kind, !.id = <<id>>]
ErrText(kind, t) == [NoResult EXCEPT !.kind = kind, !.text = t]
ErrGroup(group) ==
    [NoResult EXCEPT !.kind = "MuscleGroupDoesNotExist", !.text = group,
                     !.options = POSSIBLE_GROUPS]

\* the record of a call: the method, ic.caller(), the arguments, the result
Call(op, caller, name, group, id, calories, res) ==
    [op |-> op, caller |-> caller, name |-> name, group |-> group,
     id |-> id, calories |-> calories, res |-> res]

---------------------------------------------------------------------------
(* Canister methods.  Each handler yields the two tables as it leaves them *)
(* and the value it returns.                                               *)

Outcome(us, ws, res) == [users |-> us, workouts |-> ws, res |-> res]

\* faulty variant of createUser: an existing record is not looked for
createUserOverwrite(caller, name, time) ==
    LET id == caller IN
    IF isInvalidString(name)
    THEN Outcome(users, workouts, ErrText("InvalidPayload", name))
    ELSE LET user == [id |-> id, createdAt |-> time, sessionIds |-> <<>>,
                      name |-> name]
         IN Outcome(insert(users, user.id, user), workouts, OkUser(user))

\* faulty variant of createUser: the record is inserted before the name is checked
createUserInsertFirst(caller, name, time) ==
    LET id == caller
        user == [id |-> id, createdAt |-> time, sessionIds |-> <<>>,
                 name |-> name]
    IN IF containsKey(users, id)
       THEN Outcome(users, workouts, ErrPrincipal("UserDoesExist", id))
       ELSE IF isInvalidString(name)
       THEN Outcome(insert(users, user.id, user), workouts,
                    ErrText("InvalidPayload", name))
       ELSE Outcome(insert(users, user.id, user), workouts, OkUser(user))

\* faulty variant of createUser: the new record is returned but not inserted
createUserNotStored(caller, name, time) ==
    LET id == caller IN
    IF containsKey(users, id)
    THEN Outcome(users, workouts, ErrPrincipal("UserDoesExist", id))
    ELSE IF isInvalidString(name)
    THEN Outcome(users, workouts, ErrText("InvalidPayload", name))
    ELSE LET user == [id |-> id, createdAt |-> time, sessionIds |-> <<>>,
                      name |-> name]
         IN Outcome(users, workouts, OkUser(user))

createUser(caller, name, time) ==
    LET id == caller IN
    IF containsKey(users, id)
    THEN Outcome(users, workouts, ErrPrincipal("UserDoesExist", id))
    ELSE IF isInvalidString(name)
    THEN Outcome(users, workouts, ErrText("InvalidPayload", name))
    ELSE LET user == [id |-> id, createdAt |-> time, sessionIds |-> <<>>,
                      name |-> name]
         IN Outcome(insert(users, user.id, user), workouts, OkUser(user))

getUserById(id) ==
    IF ~containsKey(users, id)
    THEN ErrPrincipal("UserDoesNotExist", id)
    ELSE OkUser(users[id])

getAllUsers == VecUser(values(users))

\* faulty variant of removeEach: only the first listed session is removed
removeFirst(ws, sessionIds) ==
    IF sessionIds = <<>> THEN ws ELSE remove(ws, Head(sessionIds))

\* user.sessionIds.forEach(sessionId => workouts.remove(sessionId))
RECURSIVE removeEach(_, _)
removeEach(ws, sessionIds) ==
    IF sessionIds = <<>> THEN ws
    ELSE removeEach(remove(ws, Head(sessionIds)), Tail(sessionIds))

\* faulty variant of deleteUser: the user's sessions are left in the workout table
deleteUserNoCascade(caller) ==
    LET id == caller IN
    IF ~containsKey(users, id)
    THEN Outcome(users, workouts, ErrPrincipal("UserDoesNotExist", id))
    ELSE LET user == users[id]
         IN Outcome(remove(users, user.id), workouts, OkUser(user))

\* faulty variant of deleteUser: the whole workout table is emptied
deleteUserClearAll(caller) ==
    LET id == caller IN
    IF ~containsKey(users, id)
    THEN Outcome(users, workouts, ErrPrincipal("UserDoesNotExist", id))
    ELSE LET user == users[id]
         IN Outcome(remove(users, user.id), EmptyMap, OkUser(user))

deleteUser(caller) ==
    LET id == caller IN
    IF ~containsKey(users, id)
    THEN Outcome(users, workouts, ErrPrincipal("UserDoesNotExist", id))
    ELSE LET user == users[id]
         IN Outcome(remove(users, user.id),
                    removeEach(workouts, user.sessionIds),
                    OkUser(user))

\* faulty variant of uuidv4: an id may be returned twice
uuidv4Colliding == WorkoutIds

\* the ids uuidv4() can return: those it has not returned before
uuidv4 == WorkoutIds \ issued

\* faulty variant of appendSession: the new id is put first
prependSession(sessionIds, id) == <<id>> \o sessionIds

\* [...user.sessionIds, workout.id]
appendSession(sessionIds, id) == Append(sessionIds, id)

\* faulty variant of startWorkout: the payload is checked before the caller
startWorkoutPayloadFirst(caller, group, time, id) ==
    IF isInvalidString(group)
    THEN Outcome(users, workouts, ErrText("InvalidPayload", group))
    ELSE IF ~containsKey(users, caller)
    THEN Outcome(users, workouts, ErrPrincipal("UserDoesNotExist", caller))
    ELSE IF ~includes(POSSIBLE_GROUPS, toLowerCase(group))
    THEN Outcome(users, workouts, ErrGroup(group))
    ELSE LET workout == [id |-> id, userId |-> caller, startedAt |-> time,
                         finishedAt |-> 0, calories |-> 0,
                         muscleGroup |-> group]
             ws == insert(workouts, workout.id, workout)
             user == users[caller]
             updatedUser ==
                 [user EXCEPT !.sessionIds = appendSession(user.sessionIds, workout.id)]
         IN Outcome(insert(users, updatedUser.id, updatedUser), ws,
                    OkWorkout(workout))

startWorkout(caller, group, time, id) ==
    IF ~containsKey(users, caller)
    THEN Outcome(users, workouts, ErrPrincipal("UserDoesNotExist", caller))
    ELSE IF isInvalidString(group)
    THEN Outcome(users, workouts, ErrText("InvalidPayload", group))
    ELSE IF ~includes(POSSIBLE_GROUPS, toLowerCase(group))
    THEN Outcome(users, workouts, ErrGroup(group))
    ELSE LET workout == [id |-> id, userId |-> caller, startedAt |-> time,
                         finishedAt |-> 0, calories |-> 0,
                         muscleGroup |-> group]
             ws == insert(workouts, workout.id, workout)
             user == users[caller]
             updatedUser ==
                 [user EXCEPT !.sessionIds = appendSession(user.sessionIds, workout.id)]
         IN Outcome(insert(users, updatedUser.id, updatedUser), ws,
                    OkWorkout(workout))

\* faulty variant of endWorkout: the caller's user record is not looked up
endWorkoutAnyCaller(caller, id, calories, time) ==
    IF ~containsKey(workouts, id)
    THEN Outcome(users, workouts, ErrId("WorkoutDoesNotExist", id))
    ELSE LET workout == workouts[id] IN
         IF toString(workout.userId) # toString(caller)
         THEN Outcome(users, workouts, ErrPrincipal("AuthenticationFail", caller))
         ELSE LET updatedWorkout ==
                      [workout EXCEPT !.finishedAt = time, !.calories = calories]
              IN Outcome(users, insert(workouts, workout.id, updatedWorkout),
                         OkWorkout(updatedWorkout))

\* faulty variant of endWorkout: finishedAt is left as it was
endWorkoutCaloriesOnly(caller, id, calories, time) ==
    IF ~containsKey(users, caller)
    THEN Outcome(users, workouts, ErrPrincipal("UserDoesNotExist", caller))
    ELSE IF ~containsKey(workouts, id)
    THEN Outcome(users, workouts, ErrId("WorkoutDoesNotExist", id))
    ELSE LET workout == workouts[id] IN
         IF toString(workout.userId) # toString(caller)
         THEN Outcome(users, workouts, ErrPrincipal("AuthenticationFail", caller))
         ELSE LET updatedWorkout == [workout EXCEPT !.calories = calories]
              IN Outcome(users, insert(workouts, workout.id, updatedWorkout),
                         OkWorkout(updatedWorkout))

endWorkout(caller, id, calories, time) ==
    IF ~containsKey(users, caller)
    THEN Outcome(users, workouts, ErrPrincipal("UserDoesNotExist", caller))
    ELSE IF ~containsKey(workouts, id)
    THEN Outcome(users, workouts, ErrId("WorkoutDoesNotExist", id))
    ELSE LET workout == workouts[id] IN
         IF toString(workout.userId) # toString(caller)
         THEN Outcome(users, workouts, ErrPrincipal("AuthenticationFail", caller))
         ELSE LET updatedWorkout ==
                      [workout EXCEPT !.finishedAt = time, !.calories = calories]
              IN Outcome(users, insert(workouts, workout.id, updatedWorkout),
                         OkWorkout(updatedWorkout))

listWorkouts == VecWorkout(values(workouts))

---------------------------------------------------------------------------
(* Calls.  Every call is one step.  ic.time() is read only on the paths    *)
(* that store it and never runs backwards; now is the latest value read.   *)
(* last is the record of the latest call that returned Ok from an update   *)
(* method; a failed call and a query return their value and leave no       *)
(* trace, so what they return is read off the handler in the state of the  *)
(* call.                                                                   *)

icTime == {t \in Times : t = now \/ t = now + 1}

\* a startWorkout call that has not been entered: where it stands in the
\* handler, its ic.caller(), its argument, its uuid, the user record it read
IdleStart == [pc |-> "idle", caller |-> 0, group |-> <<>>, id |-> 0,
              user |-> <<>>]

\* a deleteUser call that has not been entered: where it stands in the handler,
\* its ic.caller(), what user.sessionIds.forEach has still to visit
IdleDelete == [pc |-> "idle", caller |-> 0, rest |-> <<>>]

\* no call is under way; overlap tells whether a startWorkout and a deleteUser
\* of one caller were ever under way together
Quiet == [start |-> IdleStart, delete |-> IdleDelete, overlap |-> FALSE]

Init ==
    /\ users = EmptyMap
    /\ workouts = EmptyMap
    /\ issued = {}
    /\ now = 1
    /\ last = Call("init", 0, <<>>, <<>>, 0, 0, NoResult)
    /\ inflight = Quiet

Commit(out, call, time) ==
    /\ users' = out.users
    /\ workouts' = out.workouts
    /\ UNCHANGED inflight
    /\ IF out.res.kind = "Ok"
       THEN last' = call /\ now' = time
       ELSE UNCHANGED <<last, now>>

CreateUser ==
    \E caller \in Principals, name \in Names, t \in icTime :
        LET out == createUser(caller, name, t) IN
        /\ Commit(out, Call("createUser", caller, name, <<>>, 0, 0, out.res), t)
        /\ UNCHANGED issued

GetUserById ==
    \E id \in Principals :
        /\ getUserById(id).kind \in {"Ok", "UserDoesNotExist"}
        /\ UNCHANGED vars

GetAllUsers ==
    /\ getAllUsers.kind = "Vec"
    /\ UNCHANGED vars

DeleteUser ==
    \E caller \in Principals :
        LET out == deleteUser(caller) IN
        /\ Commit(out, Call("deleteUser", caller, <<>>, <<>>, 0, 0, out.res), now)
        /\ UNCHANGED issued

StartWorkout ==
    \E caller \in Principals, group \in GroupInputs, t \in icTime :
      \* uuidv4() is called only once the three checks have passed
      \E id \in IF startWorkout(caller, group, t, 0).res.kind = "Ok"
                THEN uuidv4 ELSE {0} :
        LET out == startWorkout(caller, group, t, id) IN
        /\ Commit(out, Call("startWorkout", caller, <<>>, group, id, 0, out.res), t)
        /\ issued' = IF out.res.kind = "Ok" THEN issued \cup {id} ELSE issued

EndWorkout ==
    \E caller \in Principals, id \in WorkoutIds, calories \in CaloriesInputs,
       t \in icTime :
        LET out == endWorkout(caller, id, calories, t) IN
        /\ Commit(out, Call("endWorkout", caller, <<>>, <<>>, id, calories, out.res), t)
        /\ UNCHANGED issued

ListWorkouts ==
    /\ listWorkouts.kind = "Vec"
    /\ UNCHANGED vars

Next ==
    \/ CreateUser
    \/ GetUserById
    \/ GetAllUsers
    \/ DeleteUser
    \/ StartWorkout
    \/ EndWorkout
    \/ ListWorkouts

Spec == Init /\ [][Next]_vars

---------------------------------------------------------------------------
(* The same handlers on a host that does not run a call to its end before   *)
(* it enters the next: startWorkout and deleteUser advance one store read   *)
(* or write at a time, one call of each under way at most.                  *)

\* a step of startWorkout by caller while a deleteUser of caller is under way
StartOverlaps(caller) ==
    inflight.overlap
        \/ (inflight.delete.pc # "idle" /\ inflight.delete.caller = caller)

\* a step of deleteUser by caller while a startWorkout of caller is under way
DeleteOverlaps(caller) ==
    inflight.overlap
        \/ (inflight.start.pc \notin {"idle", "thrown"}
                /\ inflight.start.caller = caller)

\* the three checks of startWorkout pass (a call that fails one returns its
\* error at once and changes nothing)
StartCheck ==
    \E caller \in Principals, group \in GroupInputs :
        /\ inflight.start.pc \in {"idle", "thrown"}
        /\ uuidv4 # {}
        /\ containsKey(users, caller)
        /\ ~isInvalidString(group)
        /\ includes(POSSIBLE_GROUPS, toLowerCase(group))
        /\ inflight' = [inflight EXCEPT
               !.start = [IdleStart EXCEPT !.pc = "checked",
                                           !.caller = caller,
                                           !.group = group],
               !.overlap = StartOverlaps(caller)]
        /\ UNCHANGED <<users, workouts, issued, now, last>>

\* uuidv4(), ic.time() and workouts.insert(workout.id, workout)
StartInsert ==
    \E id \in uuidv4, t \in icTime :
        LET call == inflight.start
            workout == [id |-> id, userId |-> call.caller, startedAt |-> t,
                        finishedAt |-> 0, calories |-> 0,
                        muscleGroup |-> call.group]
        IN /\ call.pc = "checked"
           /\ workouts' = insert(workouts, workout.id, workout)
           /\ issued' = issued \cup {id}
           /\ now' = t
           /\ inflight' = [inflight EXCEPT
                  !.start = [call EXCEPT !.pc = "inserted", !.id = id],
                  !.overlap = StartOverlaps(call.caller)]
           /\ UNCHANGED <<users, last>>

\* users.get(ic.caller()).Some; when the record is gone, .Some is undefined
\* and user.sessionIds throws: the call ends there without a result, the
\* workout stays stored
StartReadUser ==
    LET call == inflight.start IN
    /\ call.pc = "inserted"
    /\ inflight' = [inflight EXCEPT
           !.start = IF containsKey(users, call.caller)
                     THEN [call EXCEPT !.pc = "read",
                                       !.user = <<users[call.caller]>>]
                     ELSE [IdleStart EXCEPT !.pc = "thrown"],
           !.overlap = StartOverlaps(call.caller)]
    /\ UNCHANGED <<users, workouts, issued, now, last>>

\* users.insert(updatedUser.id, updatedUser) and return Ok(workout)
StartWriteUser ==
    LET call == inflight.start
        user == call.user[1]
        updatedUser ==
            [user EXCEPT !.sessionIds = appendSession(user.sessionIds, call.id)]
    IN /\ call.pc = "read"
       /\ users' = insert(users, updatedUser.id, updatedUser)
       /\ inflight' = [inflight EXCEPT
              !.start = IdleStart,
              !.overlap = StartOverlaps(call.caller)]
       /\ UNCHANGED <<workouts, issued, now, last>>

\* users.containsKey(id) holds and user = users.get(id).Some (a call by a
\* caller without a record returns its error at once and changes nothing)
DeleteReadUser ==
    \E caller \in Principals :
        /\ inflight.delete.pc = "idle"
        /\ containsKey(users, caller)
        /\ inflight' = [inflight EXCEPT
               !.delete = [pc |-> "removing", caller |-> caller,
                           rest |-> users[caller].sessionIds],
               !.overlap = DeleteOverlaps(caller)]
        /\ UNCHANGED <<users, workouts, issued, now, last>>

\* one turn of user.sessionIds.forEach: workouts.remove(sessionId)
DeleteRemoveSession ==
    LET call == inflight.delete IN
    /\ call.pc = "removing"
    /\ call.rest # <<>>
    /\ workouts' = remove(workouts, Head(call.rest))
    /\ inflight' = [inflight EXCEPT
           !.delete = [call EXCEPT !.rest = Tail(call.rest)],
           !.overlap = DeleteOverlaps(call.caller)]
    /\ UNCHANGED <<users, issued, now, last>>

\* users.remove(user.id) and return Ok(user)
DeleteRemoveUser ==
    LET call == inflight.delete IN
    /\ call.pc = "removing"
    /\ call.rest = <<>>
    /\ users' = remove(users, call.caller)
    /\ inflight' = [inflight EXCEPT
           !.delete = IdleDelete,
           !.overlap = DeleteOverlaps(call.caller)]
    /\ UNCHANGED <<workouts, issued, now, last>>

NextInterleaved ==
    \/ CreateUser
    \/ StartCheck
    \/ StartInsert
    \/ StartReadUser
    \/ StartWriteUser
    \/ DeleteReadUser
    \/ DeleteRemoveSession
    \/ DeleteRemoveUser

SpecInterleaved == Init /\ [][NextInterleaved]_vars

---------------------------------------------------------------------------
(* Properties *)

\* what a step of an update method that returned Ok looks like: it is not a
\* stuttering step and last' is its record
Returned(op) == last'.op = op /\ vars' # vars

Count(seq, x) == Cardinality({i \in DOMAIN seq : seq[i] = x})

\* C1: referential integrity - every id in a stored user's sessionIds is the
\* key of a stored workout whose userId is that user's id.
C1_ReferentialIntegrity ==
    \A u \in DOMAIN users :
        \A i \in DOMAIN users[u].sessionIds :
            LET sid == users[u].sessionIds[i] IN
            /\ sid \in DOMAIN workouts
            /\ workouts[sid].id = sid
            /\ workouts[sid].userId = users[u].id

\* a user holds a session right after another user, who held one, was deleted
C1_Witness ==
    /\ last.op = "deleteUser"
    /\ last.res.users[1].sessionIds # <<>>
    /\ \E u \in DOMAIN users : users[u].sessionIds # <<>>

\* C2: no orphaned workouts - every stored workout's userId is the key of a
\* stored user; so with no users, listWorkouts() and getAllUsers() are empty.
C2_NoOrphanedWorkouts ==
    /\ \A w \in DOMAIN workouts : workouts[w].userId \in DOMAIN users
    /\ DOMAIN users = {} =>
           /\ listWorkouts.workouts = <<>>
           /\ getAllUsers.users = <<>>

\* create user, start workout, end workout, delete user: no user is left
C2_Witness ==
    /\ last.op = "deleteUser"
    /\ DOMAIN users = {}
    /\ last.res.users[1].sessionIds # <<>>
    /\ issued # {}

\* C3: ownership - endWorkout by a caller who is not the workout's userId
\* changes no workout, and a step that changes a stored workout's finishedAt
\* or calories is an endWorkout of that id called by the workout's userId.
C3_NonOwnerChangesNothing ==
    \A c \in Principals, id \in DOMAIN workouts, calories \in CaloriesInputs,
       t \in icTime :
        workouts[id].userId # c =>
            /\ endWorkout(c, id, calories, t).workouts = workouts
            /\ endWorkout(c, id, calories, t).users = users

C3_OnlyOwnerCompletes ==
    \A id \in DOMAIN workouts \cap DOMAIN workouts' :
        (\/ workouts'[id].finishedAt # workouts[id].finishedAt
         \/ workouts'[id].calories # workouts[id].calories)
        => /\ Returned("endWorkout")
           /\ last'.id = id
           /\ last'.caller = workouts[id].userId

C3_OwnershipEnforced ==
    [](C3_NonOwnerChangesNothing) /\ [][C3_OnlyOwnerCompletes]_vars

\* a workout was completed while another caller had a user record too
C3_Witness ==
    /\ last.op = "endWorkout"
    /\ workouts[last.id].finishedAt # 0
    /\ \E c \in DOMAIN users : c # workouts[last.id].userId

\* C4: one-way completion - once a stored workout's finishedAt is set, no
\* step changes its finishedAt or calories again.
C4_CompletedOnce ==
    [][\A id \in DOMAIN workouts \cap DOMAIN workouts' :
           workouts[id].finishedAt # 0 =>
               /\ workouts'[id].finishedAt = workouts[id].finishedAt
               /\ workouts'[id].calories = workouts[id].calories]_vars

\* C5: cascading delete - deleteUser by a caller with a record returns Ok with
\* the record as it was, leaves the caller without a record and the workout
\* table without the sessions the record listed, and changes no other user and
\* no workout of another user; without a record it fails with
\* UserDoesNotExist, its only failure.
C5_DeleteStep ==
    \A c \in Principals :
        Returned("deleteUser") /\ last'.caller = c =>
        /\ c \in DOMAIN users
        /\ last'.res = OkUser(users[c])
        /\ c \notin DOMAIN users'
        /\ getUserById(c)' = ErrPrincipal("UserDoesNotExist", c)
        /\ \A i \in DOMAIN users[c].sessionIds :
               users[c].sessionIds[i] \notin DOMAIN workouts'
        /\ DOMAIN users' = DOMAIN users \ {c}
        /\ \A u \in DOMAIN users' : users'[u] = users[u]
        /\ \A w \in DOMAIN workouts :
               workouts[w].userId # c =>
                   w \in DOMAIN workouts' /\ workouts'[w] = workouts[w]

C5_DeleteResult ==
    \A c \in Principals :
        /\ c \in DOMAIN users => deleteUser(c).res = OkUser(users[c])
        /\ c \notin DOMAIN users =>
               deleteUser(c) =
                   Outcome(users, workouts, ErrPrincipal("UserDoesNotExist", c))

C5_CascadingDelete == [](C5_DeleteResult) /\ [][C5_DeleteStep]_vars

\* a user that listed a session was deleted while another user and its
\* workout stayed
C5_Witness ==
    /\ last.op = "deleteUser"
    /\ last.res.users[1].sessionIds # <<>>
    /\ DOMAIN workouts # {}

\* C6: one user per caller - for a caller with a record createUser fails with
\* UserDoesExist for every name and changes nothing; every stored user's id is
\* its key and no two stored users share an id.
C6_OneUserPerCaller ==
    /\ \A c \in DOMAIN users, name \in Names, t \in icTime :
           createUser(c, name, t) =
               Outcome(users, workouts, ErrPrincipal("UserDoesExist", c))
    /\ \A c \in DOMAIN users : users[c].id = c
    /\ \A i, j \in DOMAIN getAllUsers.users :
           getAllUsers.users[i].id = getAllUsers.users[j].id => i = j

\* a caller whose record has a session asks for a user under another name
C6_Witness ==
    \E c \in DOMAIN users, name \in Names :
        /\ users[c].sessionIds # <<>>
        /\ ~isInvalidString(name)
        /\ name # users[c].name
        /\ createUser(c, name, now).res.kind = "UserDoesExist"

\* the set of groups the specification names
RecognizedGroups ==
    { <<"s", "h", "o", "u", "l", "d", "e", "r", "s">>,
      <<"b", "a", "c", "k">>,
      <<"c", "h", "e", "s", "t">>,
      <<"l", "e", "g", "s">>,
      <<"c", "a", "r", "d", "i", "o">> }

\* C7: muscle-group validation - for a caller with a record and a non-blank
\* group, startWorkout fails with MuscleGroupDoesNotExist exactly when the
\* lower-cased group is none of shoulders, back, chest, legs, cardio.
C7_GroupValidation ==
    \A c \in DOMAIN users, group \in GroupSamples, t \in icTime :
        ~isInvalidString(group) =>
            (startWorkout(c, group, t, 0).res.kind = "MuscleGroupDoesNotExist"
             <=> toLowerCase(group) \notin RecognizedGroups)

\* C8: startWorkout's success - the returned session s is stored under s.id,
\* a key the table did not have, with userId the caller and finishedAt and
\* calories 0; the caller's sessionIds is the old one with s.id appended, so
\* s.id is in it once; no other user and no other workout changes.
C8_StartStep ==
    Returned("startWorkout") =>
        LET c == last'.caller
            s == last'.res.workouts[1]
        IN /\ last'.res.kind = "Ok"
           /\ s.id \notin DOMAIN workouts
           /\ DOMAIN workouts' = DOMAIN workouts \cup {s.id}
           /\ workouts'[s.id] = s
           /\ s.userId = c
           /\ s.finishedAt = 0
           /\ s.calories = 0
           /\ \A w \in DOMAIN workouts : workouts'[w] = workouts[w]
           /\ c \in DOMAIN users
           /\ DOMAIN users' = DOMAIN users
           /\ users'[c].sessionIds = users[c].sessionIds \o <<s.id>>
           /\ Count(users'[c].sessionIds, s.id) = 1
           /\ users'[c] = [users[c] EXCEPT !.sessionIds = users'[c].sessionIds]
           /\ \A u \in DOMAIN users \ {c} : users'[u] = users[u]

C8_StartWorkoutSuccess == [][C8_StartStep]_vars

\* a second session was started by a user while another user has a record
C8_Witness ==
    /\ last.op = "startWorkout"
    /\ Len(users[last.caller].sessionIds) = 2
    /\ Cardinality(DOMAIN users) = 2

\* C9 as stated: endWorkout fails with WorkoutDoesNotExist whenever the id is
\* not stored and with AuthenticationFail whenever it is stored under another
\* userId, for every caller, with or without a user record; it has no other
\* failure.
C9_EndWorkoutErrorsAsStated ==
    \A c \in Principals, id \in WorkoutIds, calories \in CaloriesInputs,
       t \in icTime :
        LET kind == endWorkout(c, id, calories, t).res.kind IN
        /\ id \notin DOMAIN workouts => kind = "WorkoutDoesNotExist"
        /\ (id \in DOMAIN workouts /\ workouts[id].userId # c) =>
               kind = "AuthenticationFail"
        /\ kind \in {"Ok", "WorkoutDoesNotExist", "AuthenticationFail"}

\* C9 amended: a caller without a user record gets UserDoesNotExist whatever
\* the id; a caller with a record gets WorkoutDoesNotExist when the id is not
\* stored, AuthenticationFail when it is stored under another userId and Ok
\* when it is stored under the caller; there is no other outcome.
C9_EndWorkoutErrors ==
    \A c \in Principals, id \in WorkoutIds, calories \in CaloriesInputs,
       t \in icTime :
        LET kind == endWorkout(c, id, calories, t).res.kind IN
        /\ c \notin DOMAIN users => kind = "UserDoesNotExist"
        /\ (c \in DOMAIN users /\ id \notin DOMAIN workouts) =>
               kind = "WorkoutDoesNotExist"
        /\ (c \in DOMAIN users /\ id \in DOMAIN workouts
                /\ workouts[id].userId # c) => kind = "AuthenticationFail"
        /\ (c \in DOMAIN users /\ id \in DOMAIN workouts
                /\ workouts[id].userId = c) => kind = "Ok"

\* a user's workout is stored, another caller has a record, the third id is
\* not stored: endWorkout has each of its answers but UserDoesNotExist
C9_Witness ==
    /\ last.op = "endWorkout"
    /\ \E c \in DOMAIN users, id \in DOMAIN workouts :
           endWorkout(c, id, 250, now).res.kind = "AuthenticationFail"
    /\ \E c \in DOMAIN users, id \in WorkoutIds :
           endWorkout(c, id, 250, now).res.kind = "WorkoutDoesNotExist"

\* C10: no session without an owner - startWorkout by a caller without a
\* record fails with UserDoesNotExist for every group, blank or unknown; with
\* a record a blank group fails with InvalidPayload, before the group is
\* looked up; none of the three failures changes a table.
C10_StartWorkoutFailures ==
    \A c \in Principals, group \in GroupSamples, t \in icTime :
        LET out == startWorkout(c, group, t, 0) IN
        /\ c \notin DOMAIN users =>
               out.res = ErrPrincipal("UserDoesNotExist", c)
        /\ (c \in DOMAIN users /\ isInvalidString(group)) =>
               out.res = ErrText("InvalidPayload", group)
        /\ out.res.kind \in {"Ok", "UserDoesNotExist", "InvalidPayload",
                             "MuscleGroupDoesNotExist"}
        /\ out.res.kind # "Ok" => out.users = users /\ out.workouts = workouts

\* one caller has a record and a session, the other has none and asks for a
\* workout with a blank, an unknown and a known group
C10_Witness ==
    /\ \E c \in DOMAIN users : users[c].sessionIds # <<>>
    /\ \E c \in Principals \ DOMAIN users :
           /\ startWorkout(c, Blanks, now, 0).res.kind = "UserDoesNotExist"
           /\ startWorkout(c, Yoga, now, 0).res.kind = "UserDoesNotExist"
           /\ startWorkout(c, LegsUpper, now, 0).res.kind = "UserDoesNotExist"

\* C11: create/read round trip - a createUser that returns Ok returns a user
\* with the caller as id, the given name and no sessions, and getUserById of
\* the caller then returns Ok with that user; getUserById fails with
\* UserDoesNotExist exactly for the ids that are no key of the user table.
C11_CreateStep ==
    \A c \in Principals :
        Returned("createUser") /\ last'.caller = c =>
            LET u == last'.res.users[1] IN
            /\ last'.res.kind = "Ok"
            /\ u.id = c
            /\ u.name = last'.name
            /\ u.sessionIds = <<>>
            /\ getUserById(c)' = OkUser(u)

C11_ReadResult ==
    \A id \in Principals :
        /\ getUserById(id).kind = "UserDoesNotExist" <=> id \notin DOMAIN users
        /\ id \in DOMAIN users => getUserById(id) = OkUser(users[id])

C11_CreateReadRoundTrip == [](C11_ReadResult) /\ [][C11_CreateStep]_vars

\* a second user was created while the first has a session
C11_Witness ==
    /\ last.op = "createUser"
    /\ last.res.kind = "Ok"
    /\ \E u \in DOMAIN users : users[u].sessionIds # <<>>

\* the blank names: empty and whitespace only
BlankNames == {EmptyText, Blanks}

\* C12: blank-name rejection - for a caller without a record createUser with
\* an empty or whitespace-only name fails with InvalidPayload and creates
\* nothing; for a caller with a record it fails with UserDoesExist; no stored
\* user has an empty or whitespace-only name.
C12_BlankNameRejected ==
    /\ \A c \in Principals, name \in BlankNames, t \in icTime :
           LET out == createUser(c, name, t) IN
           /\ c \notin DOMAIN users =>
                  out = Outcome(users, workouts, ErrText("InvalidPayload", name))
           /\ c \in DOMAIN users => out.res.kind = "UserDoesExist"
    /\ \A u \in DOMAIN users :
           \E i \in DOMAIN users[u].name : users[u].name[i] \notin WhiteSpace

\* one caller has a record and the other has none: a blank name gets each of
\* the two answers
C12_Witness ==
    /\ \E c \in DOMAIN users :
           createUser(c, Blanks, now).res.kind = "UserDoesExist"
    /\ \E c \in Principals \ DOMAIN users :
           /\ createUser(c, Blanks, now).res.kind = "InvalidPayload"
           /\ createUser(c, EmptyText, now).res.kind = "InvalidPayload"

\* C13: workout lifetime - a stored workout leaves the table only in a
\* deleteUser step of the caller that is its userId.
C13_RemovalStep ==
    \A id \in DOMAIN workouts :
        id \notin DOMAIN workouts' =>
            Returned("deleteUser") /\ last'.caller = workouts[id].userId

C13_WorkoutLifetime == [][C13_RemovalStep]_vars

\* a user with a session was deleted and a completed workout of the other
\* user stayed
C13_Witness ==
    /\ last.op = "deleteUser"
    /\ last.res.users[1].sessionIds # <<>>
    /\ \E w \in DOMAIN workouts :
           workouts[w].finishedAt # 0 /\ workouts[w].userId # last.caller

IsPrefix(a, b) == Len(a) <= Len(b) /\ SubSeq(b, 1, Len(a)) = a

\* C14: sessionIds is append-only - in a step that keeps a user's record the
\* old sessionIds is a prefix of the new one, and it grows, by one element,
\* only in an Ok startWorkout of that user.
C14_SessionIdsStep ==
    \A c \in DOMAIN users \cap DOMAIN users' :
        /\ IsPrefix(users[c].sessionIds, users'[c].sessionIds)
        /\ users'[c].sessionIds # users[c].sessionIds =>
               /\ Len(users'[c].sessionIds) = Len(users[c].sessionIds) + 1
               /\ Returned("startWorkout")
               /\ last'.caller = c

C14_SessionIdsAppendOnly == [][C14_SessionIdsStep]_vars

\* a user has two sessions: the list grew twice
C14_Witness ==
    /\ last.op = "startWorkout"
    /\ Len(users[last.caller].sessionIds) >= 2
    /\ users[last.caller].sessionIds[Len(users[last.caller].sessionIds)] = last.id

\* C15: immutable fields - while a record stays stored, a workout's id,
\* userId, startedAt and muscleGroup and a user's id, createdAt and name do
\* not change; an Ok endWorkout changes finishedAt and calories of its workout
\* and nothing else in either table.
C15_FieldsStep ==
    /\ \A w \in DOMAIN workouts \cap DOMAIN workouts' :
           /\ workouts'[w].id = workouts[w].id
           /\ workouts'[w].userId = workouts[w].userId
           /\ workouts'[w].startedAt = workouts[w].startedAt
           /\ workouts'[w].muscleGroup = workouts[w].muscleGroup
    /\ \A u \in DOMAIN users \cap DOMAIN users' :
           /\ users'[u].id = users[u].id
           /\ users'[u].createdAt = users[u].createdAt
           /\ users'[u].name = users[u].name
    /\ Returned("endWorkout") =>
           /\ users' = users
           /\ DOMAIN workouts' = DOMAIN workouts
           /\ \A w \in DOMAIN workouts :
                  w # last'.id => workouts'[w] = workouts[w]

C15_ImmutableFields == [][C15_FieldsStep]_vars

\* a workout was completed while another workout and another user are stored
C15_Witness ==
    /\ last.op = "endWorkout"
    /\ Cardinality(DOMAIN workouts) = 2
    /\ Cardinality(DOMAIN users) = 2

\* C16 as stated: endWorkout(id, 0) by the owner of a started session fails
\* with InvalidPayload and leaves the session started.
C16_ZeroCaloriesRejected ==
    \A id \in DOMAIN workouts, t \in icTime :
        LET c == workouts[id].userId
            out == endWorkout(c, id, 0, t)
        IN (c \in DOMAIN users /\ workouts[id].finishedAt = 0
                /\ workouts[id].calories = 0) =>
               /\ out.res.kind = "InvalidPayload"
               /\ out.workouts[id].finishedAt = 0
               /\ out.workouts[id].calories = 0

\* C16 amended: endWorkout(id, 0) by the owner of a stored session returns
\* Ok; the session comes out completed, with finishedAt the time of the call
\* (not 0) and calories 0; endWorkout never answers InvalidPayload.
C16_ZeroCaloriesAccepted ==
    /\ \A id \in DOMAIN workouts, t \in icTime :
           LET c == workouts[id].userId
               out == endWorkout(c, id, 0, t)
           IN c \in DOMAIN users =>
                  /\ out.res.kind = "Ok"
                  /\ out.workouts[id].calories = 0
                  /\ out.workouts[id].finishedAt = t
                  /\ out.workouts[id].finishedAt # 0
                  /\ out.res.workouts[1] = out.workouts[id]
    /\ \A c \in Principals, id \in WorkoutIds, calories \in CaloriesInputs,
          t \in icTime :
           endWorkout(c, id, calories, t).res.kind # "InvalidPayload"

\* a started session was ended with 0 calories by its owner
C16_Witness ==
    /\ last.op = "endWorkout"
    /\ last.calories = 0
    /\ workouts[last.id].finishedAt # 0
    /\ workouts[last.id].calories = 0

ErrorKinds ==
    {"UserDoesExist", "InvalidPayload", "UserDoesNotExist",
     "MuscleGroupDoesNotExist", "WorkoutDoesNotExist", "AuthenticationFail"}

\* what a handler may answer and do: Ok, or one of the six errors with both
\* tables as they were
FailsClean(out) ==
    /\ out.res.kind \in ErrorKinds \cup {"Ok"}
    /\ out.res.kind \in ErrorKinds =>
           out.users = users /\ out.workouts = workouts

\* every method, for every caller and argument, answers Ok or fails clean
AllFailClean ==
    /\ \A c \in Principals, name \in Names, t \in icTime :
           FailsClean(createUser(c, name, t))
    /\ \A c \in Principals : FailsClean(deleteUser(c))
    /\ \A c \in Principals, group \in GroupInputs, t \in icTime :
           FailsClean(startWorkout(c, group, t, 0))
    /\ \A c \in Principals, id \in WorkoutIds, calories \in CaloriesInputs,
          t \in icTime :
           FailsClean(endWorkout(c, id, calories, t))
    /\ \A id \in Principals : getUserById(id).kind \in ErrorKinds \cup {"Ok"}

\* C18: a call that returns an error leaves the user table and the workout
\* table as they were, for every method, caller and argument, in every state
\* the canister reaches.
C18_ErrorsChangeNothing == []AllFailClean

\* two users and a workout are stored: five of the six errors are answered
\* here (UserDoesNotExist wants a caller without a record)
C18_Witness ==
    /\ \E c \in DOMAIN users :
           /\ createUser(c, Alice, now).res.kind = "UserDoesExist"
           /\ startWorkout(c, Blanks, now, 0).res.kind = "InvalidPayload"
           /\ startWorkout(c, Yoga, now, 0).res.kind = "MuscleGroupDoesNotExist"
    /\ \E c \in DOMAIN users, id \in WorkoutIds :
           endWorkout(c, id, 250, now).res.kind = "WorkoutDoesNotExist"
    /\ \E c \in DOMAIN users, id \in WorkoutIds :
           endWorkout(c, id, 250, now).res.kind = "AuthenticationFail"

\* the ids a sessionIds sequence lists
Listed(u) == {users[u].sessionIds[i] : i \in DOMAIN users[u].sessionIds}

\* C19: converse linkage - every stored workout is listed once by the user
\* that is its userId and by no other user; no sessionIds lists an id twice;
\* the keys of the workout table are the ids the users list.
C19_ConverseLinkage ==
    /\ \A w \in DOMAIN workouts :
           /\ workouts[w].userId \in DOMAIN users
           /\ \A u \in DOMAIN users :
                  Count(users[u].sessionIds, w) =
                      IF u = workouts[w].userId THEN 1 ELSE 0
    /\ \A u \in DOMAIN users :
           Cardinality(Listed(u)) = Len(users[u].sessionIds)
    /\ \A u, v \in DOMAIN users : u # v => Listed(u) \cap Listed(v) = {}
    /\ DOMAIN workouts = UNION {Listed(u) : u \in DOMAIN users}

\* each of two users lists one workout
C19_Witness ==
    /\ Cardinality(DOMAIN users) = 2
    /\ \A u \in DOMAIN users : Len(users[u].sessionIds) = 1

\* C20: delete then recreate - after an Ok deleteUser by c, createUser by c
\* with a non-blank name returns Ok with a user without sessions; a workout id
\* that left the table never comes back; once c has a record again, none of
\* the sessions of the deleted record is stored and endWorkout of their ids,
\* by any caller that has a record, fails with WorkoutDoesNotExist.
C20_DeleteStep ==
    \A c \in Principals :
        Returned("deleteUser") /\ last'.caller = c =>
            \A name \in Names \ BlankNames, t \in Times :
                /\ createUser(c, name, t)'.res.kind = "Ok"
                /\ createUser(c, name, t)'.res.users[1].sessionIds = <<>>

C20_RecreateStep ==
    \A c \in Principals :
        (last.op = "deleteUser" /\ last.caller = c
            /\ Returned("createUser") /\ last'.caller = c) =>
            /\ users'[c].sessionIds = <<>>
            /\ \A old \in WorkoutIds :
                   Count(last.res.users[1].sessionIds, old) > 0 =>
                       /\ old \notin DOMAIN workouts'
                       /\ \A calories \in CaloriesInputs, t \in Times :
                              endWorkout(c, old, calories, t)'.res =
                                  ErrId("WorkoutDoesNotExist", old)

C20_GoneForGood ==
    \A id \in issued : id \notin DOMAIN workouts => id \notin DOMAIN workouts'

C20_GoneAnswer ==
    \A c \in DOMAIN users, id \in issued \ DOMAIN workouts,
       calories \in CaloriesInputs, t \in icTime :
        endWorkout(c, id, calories, t).res = ErrId("WorkoutDoesNotExist", id)

Quiescent == inflight.start.pc = "idle" /\ inflight.delete.pc = "idle"

\* the session-id lists agree with the workout table: no listed id without its
\* workout, no workout whose owner is missing or does not list it
ListsMatchLedger ==
    /\ \A u \in DOMAIN users :
           \A i \in DOMAIN users[u].sessionIds :
               users[u].sessionIds[i] \in DOMAIN workouts
    /\ \A w \in DOMAIN workouts :
           /\ workouts[w].userId \in DOMAIN users
           /\ Count(users[workouts[w].userId].sessionIds, w) > 0

====
